---- MODULE Spec2Model ----
(***************************************************************************)
(* go-ding-sdk: the access-token cache of DingTalkClient (GetAccessToken), *)
(* the retry loop of SendMessageFromRobot, the Backoff policy and the API  *)
(* operations that make one call through post.                             *)
(*                                                                         *)
(* Time of the token cache is counted in whole seconds (expires_in is in   *)
(* seconds).  The zero time.Time of a fresh client is the instant 0 and    *)
(* the clock starts at 1, so the zero expiry lies before every "now".      *)
(* TTLs stay far below 2^63 / 10^9 seconds, so                             *)
(* time.Duration(ExpiresIn) * time.Second does not wrap.                   *)
(***************************************************************************)
EXTENDS Integers, Sequences, FiniteSets, TLC

\* ---------------------------------------------------------------- bounds
NCallers == 2
\* callers 1..NCallers each call GetAccessToken once
MaxTime == 2
\* the clock runs from 1 to MaxTime
MaxTTL == 1
\* expires_in of a token response ranges over -1..MaxTTL
MaxTo == 25
\* SendMessageFromRobot is called with 0..MaxTo recipients
MaxRetries == 13
\* Backoff.Duration is called with retries in -1..MaxRetries
JitterSteps == 4
\* rand.Float64() ranges over k / JitterSteps, k in 0..JitterSteps-1

Sender == 0
\* the process that runs one operation of the client: SendMessageFromRobot
\* or one of ApiOps
Callers == 1..NCallers
Procs == {Sender} \cup Callers

Tokens == {"", "t1", "t2"}
\* access_token of a response; "" is a response without the field
TTLs == (0 - 1)..MaxTTL
ErrCodes == {0 - 1, 0, 1}
\* errcode of a response

ZeroTime == 0
\* the zero value of time.Time (part_000:52)

\* AccessTokenResp as decoded by readResult; a rejected response carries
\* no token fields
AccessTokenResp ==
    {[ErrCode |-> 0, AccessToken |-> t, ExpiresIn |-> x] : t \in Tokens, x \in TTLs}
    \cup {[ErrCode |-> e, AccessToken |-> "", ExpiresIn |-> 0] : e \in ErrCodes \ {0}}

NoResp == [ErrCode |-> 0, AccessToken |-> "", ExpiresIn |-> 0]

\* ---------------------------------------------------------------- state
VARIABLES
    accessToken,  \* d.accessToken
    expireTime,   \* d.expireTime
    mutex,        \* d.mutex: the process holding it, or -1 when unlocked
    now,          \* time.Now()
    pc,           \* position of each process
    atr,          \* the local atr of each GetAccessToken call
    call,         \* what each GetAccessToken call saw and returned
    fetches,      \* number of http.Get calls to the token endpoint so far
    log,          \* the outcomes of the fetches so far, in order
    herd          \* all callers were blocked in Lock when the mutex was first taken

tokenVars == <<accessToken, expireTime, mutex, now, pc, atr, call, fetches, log, herd>>

VARIABLES
    to,           \* the parameter to of SendMessageFromRobot
    reqObj,       \* reqObj.UserIDs and the token header of the relay request
    retries,      \* the local retries of SendMessageFromRobot
    err,          \* whether the local err is non-nil
    posts,        \* number of post calls of the operation so far
    sleeps,       \* the arguments of backOff.Duration, one per time.Sleep
    delay,        \* the duration of the last time.Sleep, in ticks
    sres          \* what the operation returned

sendVars == <<to, reqObj, retries, err, posts, sleeps, delay, sres>>

VARIABLES
    op,           \* the operation the process Sender runs
    arg,          \* the recipients as passed to SendMessageFromRobot
    resp          \* the HTTP response the last post call received

opVars == <<op, arg, resp>>

VARIABLES
    bRetries,     \* the argument of a Backoff.Duration call
    bDraw,        \* the draw of rand.Float64() in that call, times JitterSteps
    bDelay        \* the duration returned, in ticks; -1 before the call returns

backoffVars == <<bRetries, bDraw, bDelay>>

vars == <<tokenVars, sendVars, backoffVars, opVars>>

Unlocked == 0 - 1

\* the record of one GetAccessToken call:
\*   path  "none" | "hit" | "fetch"       which branch of line 63 was taken
\*   n0    the number of fetches made before line 63 was reached
\*   at    time.Now() read at line 63
\*   tok0, exp0   the cache as read at line 63
\*   out   "none" | "hit" | "ok" | "net" | "status" | "decode" | "app"
\*   token the string returned
\* once the call has returned only path, out and token are kept
NoCall ==
    [path |-> "none", n0 |-> 0, at |-> 0, tok0 |-> "", exp0 |-> ZeroTime,
     out |-> "none", token |-> ""]

\* the outcome of a fetch: its number, its outcome, the token it returned
\* and the expiry it left in the cache
NoFetch == [n |-> 0, out |-> "none", token |-> "", exp |-> ZeroTime]

\* the last fetch that came to an outcome
Last == IF log = <<>> THEN NoFetch ELSE log[Len(log)]

\* the last fetch made before process p reached line 63
Prev(p) == IF call[p].n0 \in 1..Len(log) THEN log[call[p].n0] ELSE NoFetch

\* NewDingTalkClient: empty token, zero expiry, a fresh mutex
TokenInit ==
    /\ accessToken = ""
    /\ expireTime = ZeroTime
    /\ mutex = Unlocked
    /\ now = 1
    /\ pc = [p \in Procs |-> "idle"]
    /\ atr = [p \in Procs |-> NoResp]
    /\ call = [p \in Procs |-> NoCall]
    /\ fetches = 0
    /\ log = <<>>
    /\ herd = FALSE

\* ------------------------------------------------------- GetAccessToken
\* a process invokes GetAccessToken and blocks in d.mutex.Lock()
Invoke(p) ==
    /\ pc[p] = "idle"
    /\ pc' = [pc EXCEPT ![p] = "lock"]
    /\ UNCHANGED <<accessToken, expireTime, mutex, now, atr, call, fetches, log, herd, sendVars, backoffVars, opVars>>

NobodyLockedYet == \A q \in Procs : pc[q] \in {"idle", "lock"}

\* mutant of Lock: the lock is taken without waiting for it to be free
LockNoWait(p) ==
    /\ pc[p] = "lock"
    /\ mutex' = p
    /\ pc' = [pc EXCEPT ![p] = "check"]
    /\ herd' = IF NobodyLockedYet THEN \A q \in Callers : pc[q] = "lock" ELSE herd
    /\ UNCHANGED <<accessToken, expireTime, now, atr, call, fetches, log, sendVars, backoffVars, opVars>>

\* line 61: d.mutex.Lock() returns once the mutex is free
Lock(p) ==
    /\ pc[p] = "lock"
    /\ mutex = Unlocked
    /\ mutex' = p
    /\ pc' = [pc EXCEPT ![p] = "check"]
    /\ herd' = IF NobodyLockedYet THEN \A q \in Callers : pc[q] = "lock" ELSE herd
    /\ UNCHANGED <<accessToken, expireTime, now, atr, call, fetches, log, sendVars, backoffVars, opVars>>

\* mutant of Valid: the cache is never taken as valid
NeverValid == FALSE

\* mutant of Valid: a credential is still taken as valid at its expiry instant
ValidAtExpiry == accessToken # "" /\ now <= expireTime

\* line 63: the cached credential is present and not expired
Valid == accessToken # "" /\ now < expireTime

\* lines 63-64: cache hit, return d.accessToken
CheckHit(p) ==
    /\ pc[p] = "check"
    /\ Valid
    /\ call' = [call EXCEPT ![p] =
                  [@ EXCEPT !.path = "hit", !.n0 = fetches, !.at = now,
                            !.tok0 = accessToken, !.exp0 = expireTime,
                            !.out = "hit", !.token = accessToken]]
    /\ pc' = [pc EXCEPT ![p] = "unlock"]
    /\ UNCHANGED <<accessToken, expireTime, mutex, now, atr, fetches, log, herd, sendVars, backoffVars, opVars>>

\* mutant of CheckMiss: the mutex is released while the fetch is in flight
CheckMissUnlocks(p) ==
    /\ pc[p] = "check"
    /\ ~Valid
    /\ mutex' = Unlocked
    /\ fetches' = fetches + 1
    /\ call' = [call EXCEPT ![p] =
                  [@ EXCEPT !.path = "fetch", !.n0 = fetches, !.at = now,
                            !.tok0 = accessToken, !.exp0 = expireTime]]
    /\ pc' = [pc EXCEPT ![p] = "get"]
    /\ UNCHANGED <<accessToken, expireTime, now, atr, log, herd, sendVars, backoffVars, opVars>>

\* lines 63, 67: cache miss, http.Get is issued
CheckMiss(p) ==
    /\ pc[p] = "check"
    /\ ~Valid
    /\ fetches' = fetches + 1
    /\ call' = [call EXCEPT ![p] =
                  [@ EXCEPT !.path = "fetch", !.n0 = fetches, !.at = now,
                            !.tok0 = accessToken, !.exp0 = expireTime]]
    /\ pc' = [pc EXCEPT ![p] = "get"]
    /\ UNCHANGED <<accessToken, expireTime, mutex, now, atr, log, herd, sendVars, backoffVars, opVars>>

\* mutant of FailWith: a failed fetch drops the cached token
FailWithClears(p, kind) ==
    /\ pc[p] = "get"
    /\ accessToken' = ""
    /\ call' = [call EXCEPT ![p] = [@ EXCEPT !.out = kind, !.token = ""]]
    /\ log' = Append(log, [n |-> call[p].n0 + 1, out |-> kind, token |-> "", exp |-> expireTime])
    /\ pc' = [pc EXCEPT ![p] = "unlock"]
    /\ UNCHANGED <<expireTime, mutex, now, atr, fetches, herd, sendVars, backoffVars, opVars>>

\* mutant of FailWith: the error return leaves without the deferred Unlock
FailWithNoUnlock(p, kind) ==
    /\ pc[p] = "get"
    /\ call' = [call EXCEPT ![p] = [@ EXCEPT !.out = kind, !.token = ""]]
    /\ log' = Append(log, [n |-> call[p].n0 + 1, out |-> kind, token |-> "", exp |-> expireTime])
    /\ pc' = [pc EXCEPT ![p] = "done"]
    /\ UNCHANGED <<accessToken, expireTime, mutex, now, atr, fetches, herd, sendVars, backoffVars, opVars>>

\* an error return of the fetch that does not touch the cache
FailWith(p, kind) ==
    /\ pc[p] = "get"
    /\ call' = [call EXCEPT ![p] = [@ EXCEPT !.out = kind, !.token = ""]]
    /\ log' = Append(log, [n |-> call[p].n0 + 1, out |-> kind, token |-> "", exp |-> expireTime])
    /\ pc' = [pc EXCEPT ![p] = "unlock"]
    /\ UNCHANGED <<accessToken, expireTime, mutex, now, atr, fetches, herd, sendVars, backoffVars, opVars>>

\* lines 68-70: http.Get returns an error
GetNetErr(p) == FailWith(p, "net")

\* lines 72-74: the status is not 200
GetBadStatus(p) == FailWith(p, "status")

\* lines 80-82: readResult cannot decode the body
GetDecodeErr(p) == FailWith(p, "decode")

\* mutant of GetBody: the mutex is released once the response is read,
\* before the cache is written
GetBodyUnlocks(p) ==
    /\ pc[p] = "get"
    /\ \E r \in AccessTokenResp :
         /\ atr' = [atr EXCEPT ![p] = r]
         /\ pc' = [pc EXCEPT ![p] = IF r.ErrCode # 0 THEN "clear1" ELSE "store1"]
    /\ mutex' = Unlocked
    /\ UNCHANGED <<accessToken, expireTime, now, call, fetches, log, herd, sendVars, backoffVars, opVars>>

\* lines 79-80, 84: readResult decodes the body into atr
GetBody(p) ==
    /\ pc[p] = "get"
    /\ \E r \in AccessTokenResp :
         /\ atr' = [atr EXCEPT ![p] = r]
         /\ pc' = [pc EXCEPT ![p] = IF r.ErrCode # 0 THEN "clear1" ELSE "store1"]
    /\ UNCHANGED <<accessToken, expireTime, mutex, now, call, fetches, log, herd, sendVars, backoffVars, opVars>>

\* mutant of ClearToken: a rejected fetch leaves the cached token in place
ClearTokenKeeps(p) ==
    /\ pc[p] = "clear1"
    /\ pc' = [pc EXCEPT ![p] = "clear2"]
    /\ UNCHANGED <<accessToken, expireTime, mutex, now, atr, call, fetches, log, herd, sendVars, backoffVars, opVars>>

\* line 85: d.accessToken = ""
ClearToken(p) ==
    /\ pc[p] = "clear1"
    /\ accessToken' = ""
    /\ pc' = [pc EXCEPT ![p] = "clear2"]
    /\ UNCHANGED <<expireTime, mutex, now, atr, call, fetches, log, herd, sendVars, backoffVars, opVars>>

\* lines 86-87: d.expireTime = time.Now(); return the error
ClearExpire(p) ==
    /\ pc[p] = "clear2"
    /\ expireTime' = now
    /\ call' = [call EXCEPT ![p] = [@ EXCEPT !.out = "app", !.token = ""]]
    /\ log' = Append(log, [n |-> call[p].n0 + 1, out |-> "app", token |-> "", exp |-> now])
    /\ atr' = [atr EXCEPT ![p] = NoResp]
    /\ pc' = [pc EXCEPT ![p] = "unlock"]
    /\ UNCHANGED <<accessToken, mutex, now, fetches, herd, sendVars, backoffVars, opVars>>

\* line 90: d.accessToken = atr.AccessToken
StoreToken(p) ==
    /\ pc[p] = "store1"
    /\ accessToken' = atr[p].AccessToken
    /\ pc' = [pc EXCEPT ![p] = "store2"]
    /\ UNCHANGED <<expireTime, mutex, now, atr, call, fetches, log, herd, sendVars, backoffVars, opVars>>

\* mutant of StoreExpire: the expiry is set to the fetch time, without the TTL
StoreExpireNoTTL(p) ==
    /\ pc[p] = "store2"
    /\ expireTime' = now
    /\ call' = [call EXCEPT ![p] = [@ EXCEPT !.out = "ok", !.token = atr[p].AccessToken]]
    /\ log' = Append(log, [n |-> call[p].n0 + 1, out |-> "ok", token |-> atr[p].AccessToken,
                            exp |-> now + atr[p].ExpiresIn])
    /\ atr' = [atr EXCEPT ![p] = NoResp]
    /\ pc' = [pc EXCEPT ![p] = "unlock"]
    /\ UNCHANGED <<accessToken, mutex, now, fetches, herd, sendVars, backoffVars, opVars>>

\* lines 91, 93: d.expireTime = now + expires_in seconds; return atr.AccessToken
StoreExpire(p) ==
    /\ pc[p] = "store2"
    /\ expireTime' = now + atr[p].ExpiresIn
    /\ call' = [call EXCEPT ![p] = [@ EXCEPT !.out = "ok", !.token = atr[p].AccessToken]]
    /\ log' = Append(log, [n |-> call[p].n0 + 1, out |-> "ok", token |-> atr[p].AccessToken,
                            exp |-> now + atr[p].ExpiresIn])
    /\ atr' = [atr EXCEPT ![p] = NoResp]
    /\ pc' = [pc EXCEPT ![p] = "unlock"]
    /\ UNCHANGED <<accessToken, mutex, now, fetches, herd, sendVars, backoffVars, opVars>>

\* line 62: the deferred d.mutex.Unlock() runs and GetAccessToken returns
Return(p) ==
    /\ pc[p] = "unlock"
    /\ mutex' = Unlocked
    /\ call' = [call EXCEPT ![p] =
                  [NoCall EXCEPT !.path = call[p].path, !.out = call[p].out,
                                 !.token = call[p].token]]
    /\ pc' = [pc EXCEPT ![p] = IF p = Sender THEN "token" ELSE "done"]
    /\ UNCHANGED <<accessToken, expireTime, now, atr, fetches, log, herd, sendVars, backoffVars, opVars>>

\* the wall clock advances
Tick ==
    /\ now < MaxTime
    /\ now' = now + 1
    /\ UNCHANGED <<accessToken, expireTime, mutex, pc, atr, call, fetches, log, herd, sendVars, backoffVars, opVars>>

GetAccessToken(p) ==
    \/ Lock(p)
    \/ CheckHit(p)
    \/ CheckMiss(p)
    \/ GetNetErr(p)
    \/ GetBadStatus(p)
    \/ GetDecodeErr(p)
    \/ GetBody(p)
    \/ ClearToken(p)
    \/ ClearExpire(p)
    \/ StoreToken(p)
    \/ StoreExpire(p)
    \/ Return(p)

\* ---------------------------------------------------------------- Backoff
\* Durations are counted in ticks of 100 microseconds: time.Second is
\* 10^9 nanoseconds in the code and 10^4 ticks here, so that every product
\* below stays inside the 32-bit integers of the model checker.  A float64
\* product is the exact product rounded down to a whole tick.
Second == 10000

\* backoff.go lines 9-12
defaultMaxDelay == 3 * 60 * Second
defaultBaseDelay == 1 * Second
defaultFactor == [num |-> 16, den |-> 10]
defaultJitter == [num |-> 2, den |-> 10]

\* backoff.go lines 22-41
NewBackoff ==
    [MaxDelay |-> defaultMaxDelay, baseDelay |-> defaultBaseDelay,
     factor |-> defaultFactor, jitter |-> defaultJitter]

Draws == 0..(JitterSteps - 1)

\* lines 49-52: for backoff < max && retries > 0 { backoff *= factor; retries-- }
RECURSIVE Grow(_, _, _, _)
Grow(backoff, max, n, factor) ==
    IF backoff < max /\ n > 0
    THEN Grow((backoff * factor.num) \div factor.den, max, n - 1, factor)
    ELSE backoff

\* mutant of Clamp: the delay is not capped
ClampNone(backoff, max) == backoff

\* mutant of Clamp: a delay above the cap wraps around instead of stopping at it
ClampWraps(backoff, max) == IF backoff > max THEN backoff - max ELSE backoff

\* lines 54-56: if backoff > max { backoff = max }
Clamp(backoff, max) == IF backoff > max THEN max ELSE backoff

\* lines 48-56: the delay before jitter
Nominal(bc, n) == Clamp(Grow(bc.baseDelay, bc.MaxDelay, n, bc.factor), bc.MaxDelay)

\* mutant of Jittered: the draw is not centred, 1 + jitter*(rand.Float64()*2)
JitteredOneSided(backoff, jitter, k) ==
    (backoff * (jitter.den * JitterSteps + jitter.num * (2 * k)))
        \div (jitter.den * JitterSteps)

\* line 58: backoff *= 1 + jitter*(rand.Float64()*2 - 1), rand.Float64() = k / JitterSteps
Jittered(backoff, jitter, k) ==
    (backoff * (jitter.den * JitterSteps + jitter.num * (2 * k - JitterSteps)))
        \div (jitter.den * JitterSteps)

\* lines 59-63: a negative product gives 0, else the product as a Duration
NonNegative(backoff) == IF backoff < 0 THEN 0 ELSE backoff

\* mutant of Duration: only a negative counter skips the jitter
DurationJittersZero(bc, n, k) ==
    IF n < 0
    THEN bc.baseDelay
    ELSE NonNegative(Jittered(Nominal(bc, n), bc.jitter, k))

\* Backoff.Duration, lines 43-64
Duration(bc, n, k) ==
    IF n <= 0
    THEN bc.baseDelay
    ELSE NonNegative(Jittered(Nominal(bc, n), bc.jitter, k))

BackoffIdle ==
    /\ bRetries = 0
    /\ bDraw = 0
    /\ bDelay = 0 - 1

\* a caller picks an argument and the generator a draw
BackoffInit ==
    /\ bRetries \in (0 - 1)..MaxRetries
    /\ bDraw \in Draws
    /\ bDelay = 0 - 1

\* one call of NewBackoff().Duration(bRetries)
CallDuration ==
    /\ bDelay = 0 - 1
    /\ bDelay' = Duration(NewBackoff, bRetries, bDraw)
    /\ UNCHANGED <<bRetries, bDraw, tokenVars, sendVars, opVars>>

\* the next call, with another argument and another draw
NextDuration ==
    /\ bDelay # 0 - 1
    /\ bRetries' \in (0 - 1)..MaxRetries
    /\ bDraw' \in Draws
    /\ bDelay' = 0 - 1
    /\ UNCHANGED <<tokenVars, sendVars, opVars>>

\* --------------------------------------------------- SendMessageFromRobot
MaxRecipients == 20
\* line 361
MaxRetry == 3
\* line 377

\* the lengths of to: none, one, the limit of 20, one more, and the longest
ToLens == {0, 1, MaxRecipients, MaxRecipients + 1, MaxTo}

\* the HTTP statuses of a response: 200 and one that is not a success
Statuses == {200, 500}

\* what http.DefaultClient.Do and readResult can give post (lines 504-516):
\*   net      the request could not be built or sent (lines 495-507)
\*   status   resp.StatusCode
\*   decodes  json.Unmarshal accepts the body (lines 519-533)
\*   ErrCode  the errcode of the decoded body
PostResponses ==
    {[net |-> TRUE, status |-> 0, decodes |-> FALSE, ErrCode |-> 0]}
    \cup {[net |-> FALSE, status |-> s, decodes |-> FALSE, ErrCode |-> 0] : s \in Statuses}
    \cup {[net |-> FALSE, status |-> s, decodes |-> TRUE, ErrCode |-> e] :
             s \in Statuses, e \in ErrCodes}

\* SendMsgByRobotResp has no errcode field
RelayResponses == {r \in PostResponses : r.ErrCode = 0}

NoPostResp == [net |-> FALSE, status |-> 0, decodes |-> FALSE, ErrCode |-> 0]

\* post, lines 489-517: the error it returns; resp.StatusCode is not read
PostFails(r) == r.net \/ ~r.decodes

NoReq == [UserIDs |-> <<>>, header |-> ""]
NoRes == [kind |-> "none", retries |-> 0]

SendInit ==
    /\ to = <<>>
    /\ reqObj = NoReq
    /\ retries = 0
    /\ err = FALSE
    /\ posts = 0
    /\ sleeps = <<>>
    /\ delay = 0
    /\ sres = NoRes
    /\ op = "none"
    /\ arg = <<>>
    /\ resp = NoPostResp

Init == TokenInit /\ SendInit /\ BackoffIdle

\* SendMessageFromRobot is called with some recipients; line 347 calls
\* GetAccessToken
SendInvoke ==
    /\ pc[Sender] = "idle"
    /\ \E n \in ToLens :
         /\ to' = [i \in 1..n |-> i]
         /\ arg' = [i \in 1..n |-> i]
    /\ op' = "SendMessageFromRobot"
    /\ pc' = [pc EXCEPT ![Sender] = "lock"]
    /\ UNCHANGED <<accessToken, expireTime, mutex, now, atr, call, fetches, log, herd>>
    /\ UNCHANGED <<reqObj, retries, err, posts, sleeps, delay, sres, backoffVars, resp>>

IsError(out) == out \in {"net", "status", "decode", "app"}

\* lines 348-350: GetAccessToken failed
SendTokenErr ==
    /\ pc[Sender] = "token"
    /\ op = "SendMessageFromRobot"
    /\ IsError(call[Sender].out)
    /\ sres' = [kind |-> "tokenerr", retries |-> 0]
    /\ pc' = [pc EXCEPT ![Sender] = "sdone"]
    /\ UNCHANGED <<accessToken, expireTime, mutex, now, atr, call, fetches, log, herd>>
    /\ UNCHANGED <<to, reqObj, retries, err, posts, sleeps, delay, backoffVars, opVars>>

\* lines 357-359: no recipients, return nil, nil
SendNobody ==
    /\ pc[Sender] = "token"
    /\ op = "SendMessageFromRobot"
    /\ ~IsError(call[Sender].out)
    /\ Len(to) = 0
    /\ sres' = [kind |-> "nil", retries |-> 0]
    /\ pc' = [pc EXCEPT ![Sender] = "sdone"]
    /\ UNCHANGED <<accessToken, expireTime, mutex, now, atr, call, fetches, log, herd>>
    /\ UNCHANGED <<to, reqObj, retries, err, posts, sleeps, delay, backoffVars, opVars>>

\* mutant of Truncate: the list is sent as passed
TruncateNone(ids) == ids

\* lines 361-363: if len(to) > 20 { to = to[:20] }
Truncate(ids) ==
    IF Len(ids) > MaxRecipients THEN SubSeq(ids, 1, MaxRecipients) ELSE ids

\* lines 361-375: the request and the header are built, retries := 0
SendPrepare ==
    /\ pc[Sender] = "token"
    /\ op = "SendMessageFromRobot"
    /\ ~IsError(call[Sender].out)
    /\ Len(to) # 0
    /\ to' = Truncate(to)
    /\ reqObj' = [UserIDs |-> Truncate(to), header |-> call[Sender].token]
    /\ retries' = 0
    /\ pc' = [pc EXCEPT ![Sender] = "loop"]
    /\ UNCHANGED <<accessToken, expireTime, mutex, now, atr, call, fetches, log, herd>>
    /\ UNCHANGED <<err, posts, sleeps, delay, sres, backoffVars, opVars>>

\* lines 377-379: if retries > 3 { break }
LoopBreak ==
    /\ pc[Sender] = "loop"
    /\ retries > MaxRetry
    /\ pc' = [pc EXCEPT ![Sender] = "after"]
    /\ UNCHANGED <<accessToken, expireTime, mutex, now, atr, call, fetches, log, herd>>
    /\ UNCHANGED <<sendVars, backoffVars, opVars>>

\* line 381: post(batchSendAPI, reqObj, &ret, header) is called
LoopPost ==
    /\ pc[Sender] = "loop"
    /\ ~(retries > MaxRetry)
    /\ posts' = posts + 1
    /\ pc' = [pc EXCEPT ![Sender] = "post"]
    /\ UNCHANGED <<accessToken, expireTime, mutex, now, atr, call, fetches, log, herd>>
    /\ UNCHANGED <<to, reqObj, retries, err, sleeps, delay, sres, backoffVars, opVars>>

\* mutant of PostErr: the first failed call ends the loop
PostErrGivesUp ==
    /\ pc[Sender] = "post"
    /\ \E r \in RelayResponses : PostFails(r) /\ resp' = r
    /\ err' = TRUE
    /\ pc' = [pc EXCEPT ![Sender] = "after"]
    /\ UNCHANGED <<accessToken, expireTime, mutex, now, atr, call, fetches, log, herd>>
    /\ UNCHANGED <<to, reqObj, retries, posts, sleeps, delay, sres, backoffVars, op, arg>>

\* lines 381-382, 489-517: post returns an error (the request cannot be
\* built or sent, or the body does not decode)
PostErr ==
    /\ pc[Sender] = "post"
    /\ \E r \in RelayResponses : PostFails(r) /\ resp' = r
    /\ err' = TRUE
    /\ pc' = [pc EXCEPT ![Sender] = "sleep"]
    /\ UNCHANGED <<accessToken, expireTime, mutex, now, atr, call, fetches, log, herd>>
    /\ UNCHANGED <<to, reqObj, retries, posts, sleeps, delay, sres, backoffVars, op, arg>>

\* lines 381, 389, 489-517: post returns nil (a body that decodes, under
\* any status), break
PostOK ==
    /\ pc[Sender] = "post"
    /\ \E r \in RelayResponses : ~PostFails(r) /\ resp' = r
    /\ err' = FALSE
    /\ pc' = [pc EXCEPT ![Sender] = "after"]
    /\ UNCHANGED <<accessToken, expireTime, mutex, now, atr, call, fetches, log, herd>>
    /\ UNCHANGED <<to, reqObj, retries, posts, sleeps, delay, sres, backoffVars, op, arg>>

\* the clock after a sleep of d ticks: at least d later, inside the model's horizon
After(d) ==
    IF now + d \div Second > MaxTime THEN MaxTime ELSE now + d \div Second

\* mutant of SleepRetry: a failed relay call drops the cached credential
SleepRetryInvalidates ==
    /\ pc[Sender] = "sleep"
    /\ \E k \in Draws :
         /\ delay' = Duration(NewBackoff, retries + 1, k)
         /\ now' = After(Duration(NewBackoff, retries + 1, k))
    /\ accessToken' = ""
    /\ expireTime' = now
    /\ sleeps' = Append(sleeps, retries + 1)
    /\ retries' = retries + 1
    /\ resp' = NoPostResp
    /\ pc' = [pc EXCEPT ![Sender] = "loop"]
    /\ UNCHANGED <<mutex, atr, call, fetches, log, herd>>
    /\ UNCHANGED <<to, reqObj, err, posts, sres, backoffVars, op, arg>>

\* lines 383-386: time.Sleep(backOff.Duration(retries + 1)); retries += 1; continue
\* (the response of the failed call is gone by now)
SleepRetry ==
    /\ pc[Sender] = "sleep"
    /\ \E k \in Draws :
         /\ delay' = Duration(NewBackoff, retries + 1, k)
         /\ now' = After(Duration(NewBackoff, retries + 1, k))
    /\ sleeps' = Append(sleeps, retries + 1)
    /\ retries' = retries + 1
    /\ resp' = NoPostResp
    /\ pc' = [pc EXCEPT ![Sender] = "loop"]
    /\ UNCHANGED <<accessToken, expireTime, mutex, atr, call, fetches, log, herd>>
    /\ UNCHANGED <<to, reqObj, err, posts, sres, backoffVars, op, arg>>

\* lines 392-396: the error with the retry count, or the response
SendReturn ==
    /\ pc[Sender] = "after"
    /\ sres' = IF err THEN [kind |-> "err", retries |-> retries]
                      ELSE [kind |-> "ok", retries |-> 0]
    /\ pc' = [pc EXCEPT ![Sender] = "sdone"]
    /\ UNCHANGED <<accessToken, expireTime, mutex, now, atr, call, fetches, log, herd>>
    /\ UNCHANGED <<to, reqObj, retries, err, posts, sleeps, delay, backoffVars, opVars>>

SendMessageFromRobot ==
    \/ SendInvoke
    \/ GetAccessToken(Sender)
    \/ SendTokenErr
    \/ SendNobody
    \/ SendPrepare
    \/ LoopBreak
    \/ LoopPost
    \/ PostErr
    \/ PostOK
    \/ SleepRetry
    \/ SendReturn

\* ------------------------------------------ operations of one post call
\* the operations that make one HTTP call through post and decode the
\* common envelope
ApiOps ==
    {"GetDepartments", "GetChildrenDepartments", "GetSimpleUsers", "GetUsers",
     "GetApprovalProcessIDList", "GetApprovalDetail", "GetProcessCode",
     "GetUserUnionIDByCode", "GetUserIDByUnionID"}

\* GetUserUnionIDByCode (lines 438-466) signs its request with the app
\* secret and does not call GetAccessToken; every other operation calls it
\* first
UsesToken(o) == o # "GetUserUnionIDByCode"

\* the test an operation makes on the errcode of the decoded envelope:
\* data.ErrCode > 0 at lines 461 and 482, none in GetProcessCode (lines
\* 399-414), data.ErrCode != 0 in the others
Rejected(o, e) ==
    CASE o \in {"GetUserUnionIDByCode", "GetUserIDByUnionID"} -> e > 0
      [] o = "GetProcessCode" -> FALSE
      [] OTHER -> e # 0

\* an operation is called; it calls GetAccessToken first, or, in
\* GetUserUnionIDByCode, post at once (line 455)
ApiInvoke ==
    /\ pc[Sender] = "idle"
    /\ \E o \in ApiOps :
         /\ op' = o
         /\ pc' = [pc EXCEPT ![Sender] = IF UsesToken(o) THEN "lock" ELSE "apost"]
         /\ posts' = IF UsesToken(o) THEN posts ELSE posts + 1
    /\ UNCHANGED <<accessToken, expireTime, mutex, now, atr, call, fetches, log, herd>>
    /\ UNCHANGED <<to, reqObj, retries, err, sleeps, delay, sres, backoffVars, arg, resp>>

\* mutant of ApiTokenErr: the HTTP call is made although GetAccessToken failed
ApiTokenErrPosts ==
    /\ pc[Sender] = "token"
    /\ op \in ApiOps
    /\ IsError(call[Sender].out)
    /\ posts' = posts + 1
    /\ pc' = [pc EXCEPT ![Sender] = "apost"]
    /\ UNCHANGED <<accessToken, expireTime, mutex, now, atr, call, fetches, log, herd>>
    /\ UNCHANGED <<to, reqObj, retries, err, sleeps, delay, sres, backoffVars, opVars>>

\* GetAccessToken failed: its error is returned (lines 99-102 and alike)
ApiTokenErr ==
    /\ pc[Sender] = "token"
    /\ op \in ApiOps
    /\ IsError(call[Sender].out)
    /\ sres' = [kind |-> "tokenerr", retries |-> 0]
    /\ pc' = [pc EXCEPT ![Sender] = "sdone"]
    /\ UNCHANGED <<accessToken, expireTime, mutex, now, atr, call, fetches, log, herd>>
    /\ UNCHANGED <<to, reqObj, retries, err, posts, sleeps, delay, backoffVars, opVars>>

\* post is called with the token (line 112 and alike)
ApiPost ==
    /\ pc[Sender] = "token"
    /\ op \in ApiOps
    /\ ~IsError(call[Sender].out)
    /\ posts' = posts + 1
    /\ pc' = [pc EXCEPT ![Sender] = "apost"]
    /\ UNCHANGED <<accessToken, expireTime, mutex, now, atr, call, fetches, log, herd>>
    /\ UNCHANGED <<to, reqObj, retries, err, sleeps, delay, sres, backoffVars, opVars>>

\* post returns an error and the operation returns it (lines 113-115 and alike)
ApiPostErr ==
    /\ pc[Sender] = "apost"
    /\ \E r \in PostResponses : PostFails(r) /\ resp' = r
    /\ sres' = [kind |-> "posterr", retries |-> 0]
    /\ pc' = [pc EXCEPT ![Sender] = "sdone"]
    /\ UNCHANGED <<accessToken, expireTime, mutex, now, atr, call, fetches, log, herd>>
    /\ UNCHANGED <<to, reqObj, retries, err, posts, sleeps, delay, backoffVars, op, arg>>

\* post returns nil; the operation tests the errcode of the envelope and
\* returns an error or the data (lines 117-124 and alike)
ApiPostOK ==
    /\ pc[Sender] = "apost"
    /\ \E r \in PostResponses :
         /\ ~PostFails(r)
         /\ resp' = r
         /\ sres' = [kind |-> IF Rejected(op, r.ErrCode) THEN "apperr" ELSE "ok",
                     retries |-> 0]
    /\ pc' = [pc EXCEPT ![Sender] = "sdone"]
    /\ UNCHANGED <<accessToken, expireTime, mutex, now, atr, call, fetches, log, herd>>
    /\ UNCHANGED <<to, reqObj, retries, err, posts, sleeps, delay, backoffVars, op, arg>>

ApiOperation ==
    \/ ApiInvoke
    \/ ApiTokenErr
    \/ ApiPost
    \/ ApiPostErr
    \/ ApiPostOK

\* ------------------------------------------------------- specifications
\* Spec: NCallers concurrent callers of GetAccessToken on one client
Next ==
    \/ \E p \in Callers : Invoke(p) \/ GetAccessToken(p)
    \/ Tick

Spec == Init /\ [][Next]_vars

\* SpecFair: Spec under fair scheduling: while some call can take a step of
\* GetAccessToken (the mutex is free for a waiting call, the fetch in flight
\* gets an answer, the next statement of the holder runs) such a step is
\* eventually taken.  Whether a caller calls at all, and the clock, are
\* left free.
SpecFair == Spec /\ WF_vars(\E p \in Callers : GetAccessToken(p))

\* SpecSend: one SendMessageFromRobot call, beside one other caller of
\* GetAccessToken on the same client
NextSend ==
    \/ SendMessageFromRobot
    \/ Invoke(1) \/ GetAccessToken(1)
    \/ Tick

SpecSend == Init /\ [][NextSend]_vars

\* SpecApi: one operation of the client, SendMessageFromRobot or one of
\* ApiOps, beside one other caller of GetAccessToken on the same client
NextApi ==
    \/ ApiOperation
    \/ SendMessageFromRobot
    \/ Invoke(1) \/ GetAccessToken(1)
    \/ Tick

SpecApi == Init /\ [][NextApi]_vars

\* SpecBackoff: calls of Backoff.Duration over all arguments and draws
NextBackoff == CallDuration \/ NextDuration

InitBackoff == TokenInit /\ SendInit /\ BackoffInit

SpecBackoff == InitBackoff /\ [][NextBackoff]_vars

\* ----------------------------------------------------------------- claims
\* process p holds the mutex inside GetAccessToken (lines 61-94)
Holding(p) == pc[p] \in {"check", "get", "clear1", "clear2", "store1", "store2", "unlock"}

\* process p is inside GetAccessToken and past the check of line 63
Checked(p) == pc[p] \in {"get", "clear1", "clear2", "store1", "store2", "unlock"}

AllDone == \A p \in Callers : pc[p] = "done"

Transport == {"net", "status", "decode"}

\* what a GetAccessToken call gave its caller: the error and the token
Result(p) ==
    [err |-> IF IsError(call[p].out) THEN call[p].out ELSE "nil", token |-> call[p].token]

\* a fetch outcome that leaves a credential line 63 accepts at time t
Usable(f, t) == f.out = "ok" /\ f.token # "" /\ t < f.exp

\* C1, as stated: when all callers invoked GetAccessToken together against
\* the empty cache and all have returned, exactly one fetch was made and
\* all callers got the same token or the same error.
C1_Original ==
    herd /\ AllDone =>
        /\ fetches = 1
        /\ \A p, q \in Callers : Result(p) = Result(q)

\* C1, amended: when all callers invoked GetAccessToken together against
\* the empty cache and all have returned, between 1 and N fetches were
\* made, one per caller that missed the cache; exactly one fetch was made
\* and all callers got its token when the first fetch succeeded with a
\* non-empty token that has not expired; every further fetch follows a
\* fetch that failed, was rejected, or left no token or an expired one;
\* an error is returned only to the caller whose own fetch failed, and a
\* caller served from the cache gets a token some fetch has stored.
C1_Amended ==
    herd /\ AllDone =>
        /\ fetches = Cardinality({p \in Callers : call[p].path = "fetch"})
        /\ fetches \in 1..NCallers
        /\ Len(log) = fetches
        /\ Usable(log[1], now) =>
              /\ fetches = 1
              /\ \A p \in Callers : Result(p) = [err |-> "nil", token |-> log[1].token]
        /\ \A i \in 2..Len(log) : ~Usable(log[i - 1], now)
        /\ \A p \in Callers : IsError(call[p].out) => call[p].path = "fetch"
        /\ \A p \in Callers :
              call[p].out = "hit" =>
                  \E i \in 1..Len(log) : log[i].out = "ok" /\ log[i].token = call[p].token

\* C1 witness: the callers raced, one fetched and another was served from the cache
C1_Witness ==
    /\ herd /\ AllDone
    /\ fetches = 1
    /\ \E p \in Callers : call[p].out = "hit"

\* C2, as stated: when every post to the relay fails, SendMessageFromRobot
\* makes exactly 4 posts and returns an error that reports 3 retries.
C2_RetryCap ==
    pc[Sender] = "sdone" /\ sres.kind = "err" =>
        /\ posts = MaxRetry + 1
        /\ sres.retries = MaxRetry

\* C3: after a fetch that succeeded with a (non-empty) token, every call
\* that reaches line 63 before the expiry set by that fetch takes the
\* cache-hit path, returns that token, and no further fetch is made.
C3_CacheHit ==
    \A p \in Procs :
        Checked(p) /\ Usable(Prev(p), call[p].at) =>
            /\ call[p].path = "hit"
            /\ call[p].token = Prev(p).token
            /\ fetches = Prev(p).n

\* C3 witness: a call is served from the cache filled by an earlier fetch
C3_Witness ==
    \E p \in Callers :
        /\ pc[p] = "unlock"
        /\ call[p].out = "hit"
        /\ Usable(Prev(p), call[p].at)
        /\ fetches = 1

\* C4: a call that reaches line 63 at or after the cached expiry makes
\* exactly one fetch and is not served from the cache; only an unexpired
\* cached token is ever returned; and a call fetches only when the fetch
\* before it left no usable credential.
C4_ForcedRefresh ==
    \A p \in Procs :
        Checked(p) =>
            /\ call[p].at >= call[p].exp0 =>
                  /\ call[p].path = "fetch"
                  /\ call[p].out # "hit"
                  /\ fetches = call[p].n0 + 1
            /\ call[p].path = "hit" =>
                  /\ call[p].at < call[p].exp0
                  /\ call[p].token = call[p].tok0
                  /\ fetches = call[p].n0
            /\ call[p].path = "fetch" => ~Usable(Prev(p), call[p].at)

\* C4 witness: a call found a cached token that had expired and fetched a new one
C4_Witness ==
    \E p \in Callers :
        /\ pc[p] = "unlock"
        /\ call[p].tok0 # ""
        /\ call[p].at >= call[p].exp0
        /\ call[p].out = "ok"
        /\ fetches = 2

\* C5: at most one fetch is in flight, and a process holds the mutex from
\* the check of the cache to its return, through the fetch and the store.
C5_MutualExclusion ==
    /\ Cardinality({p \in Procs : pc[p] = "get"}) <= 1
    /\ \A p \in Procs : Holding(p) => mutex = p

\* C5 witness: one caller's fetch is in flight while another waits for the mutex
C5_Witness ==
    \E p, q \in Callers : p # q /\ pc[p] = "get" /\ pc[q] = "lock"

\* C6: a rejected fetch (errcode # 0) returns an error and leaves the
\* cache with no token and an expiry not in the future; it stays so until
\* the next call, which sees no token and fetches.
C6_Invalidation ==
    /\ \A p \in Procs :
          pc[p] = "unlock" /\ call[p].out = "app" =>
              /\ Result(p) = [err |-> "app", token |-> ""]
              /\ accessToken = ""
              /\ expireTime <= now
    /\ Last.out = "app" /\ mutex = Unlocked =>
          /\ accessToken = ""
          /\ expireTime <= now
    /\ \A p \in Procs :
          Checked(p) /\ Prev(p).out = "app" =>
              /\ call[p].tok0 = ""
              /\ call[p].path = "fetch"

\* C6 witness: the call after a rejected fetch fetches again and succeeds
C6_Witness ==
    \E p \in Callers :
        /\ pc[p] = "unlock"
        /\ Prev(p).out = "app"
        /\ call[p].out = "ok"

\* C7: a fetch that fails with a network error, a status other than 200
\* or an undecodable body returns an error and leaves token and expiry as
\* the call found them; the next call fetches again.
C7_Unchanged ==
    /\ \A p \in Procs :
          pc[p] = "unlock" /\ call[p].out \in Transport =>
              /\ Result(p) = [err |-> call[p].out, token |-> ""]
              /\ accessToken = call[p].tok0
              /\ expireTime = call[p].exp0
    /\ \A p \in Procs :
          Checked(p) /\ Prev(p).out \in Transport => call[p].path = "fetch"

\* C7 witness: a refresh of an expired token failed and left it in the cache
C7_Witness ==
    \E p \in Callers :
        /\ pc[p] = "unlock"
        /\ call[p].out \in Transport
        /\ call[p].tok0 # ""
        /\ accessToken = call[p].tok0

\* the pairs (token, expiry) written whole: the initial pair, the pair of
\* each successful fetch and the cleared pair of each rejected fetch
Written ==
    {<<"", ZeroTime>>}
    \cup {<<log[i].token, log[i].exp>> : i \in {j \in 1..Len(log) : log[j].out = "ok"}}
    \cup {<<"", log[i].exp>> : i \in {j \in 1..Len(log) : log[j].out = "app"}}

\* C8: whenever a caller reads the cache at line 63 the pair (token,
\* expiry) is one written whole; a successful fetch returns the token of
\* the pair it has just written, and a cache hit the token of the pair it read.
C8_NoTornRead ==
    \A p \in Procs :
        /\ pc[p] = "check" => <<accessToken, expireTime>> \in Written
        /\ Checked(p) => <<call[p].tok0, call[p].exp0>> \in Written
        /\ pc[p] = "unlock" /\ call[p].out = "ok" =>
              /\ Last.n = call[p].n0 + 1
              /\ <<accessToken, expireTime>> = <<Last.token, Last.exp>>
              /\ call[p].token = accessToken
        /\ pc[p] = "unlock" /\ call[p].out = "hit" =>
              /\ call[p].token = accessToken
              /\ <<accessToken, expireTime>> = <<call[p].tok0, call[p].exp0>>

\* C8 witness: a caller reads at line 63 the pair another caller's fetch stored
C8_Witness ==
    \E p, q \in Callers :
        /\ pc[p] = "check"
        /\ pc[q] = "done"
        /\ call[q].out = "ok"
        /\ accessToken = call[q].token
        /\ accessToken # ""

\* C9: for every attempt >= 0 and every draw, the delay returned is
\* between 0 and MaxDelay * (1 + jitter).
C9_Bounds ==
    bDelay # 0 - 1 /\ bRetries >= 0 =>
        /\ 0 <= bDelay
        /\ bDelay * NewBackoff.jitter.den
              <= NewBackoff.MaxDelay * (NewBackoff.jitter.den + NewBackoff.jitter.num)

\* C9 witness: a positive draw lifts a clamped delay above MaxDelay
C9_Witness ==
    /\ bRetries >= 0
    /\ bDelay # 0 - 1
    /\ bDelay > NewBackoff.MaxDelay

\* C10, as stated: the delay returned is always between 0 and MaxDelay.
C10_Original ==
    bDelay # 0 - 1 => 0 <= bDelay /\ bDelay <= NewBackoff.MaxDelay

\* C10, amended: however large the retry counter, the delay before jitter
\* is between 0 and MaxDelay, and the delay returned is non-negative and
\* within the jitter fraction of it (to the tick), so at most
\* MaxDelay * (1 + jitter); for a counter <= 0 it is the base delay.
C10_Amended ==
    bDelay # 0 - 1 =>
        LET d == Nominal(NewBackoff, bRetries)
            j == NewBackoff.jitter
        IN  /\ 0 <= d /\ d <= NewBackoff.MaxDelay
            /\ 0 <= bDelay
            /\ bRetries > 0 =>
                  /\ bDelay * j.den <= d * (j.den + j.num)
                  /\ (bDelay + 1) * j.den > d * (j.den - j.num)
            /\ bRetries <= 0 => bDelay = NewBackoff.baseDelay

\* C10 witness: the counter is past the clamp and a negative draw pulls
\* the delay below MaxDelay
C10_Witness ==
    /\ bRetries = MaxRetries
    /\ Nominal(NewBackoff, bRetries) = NewBackoff.MaxDelay
    /\ bDelay # 0 - 1
    /\ bDelay < NewBackoff.MaxDelay

\* C11: Duration(0) is the base delay exactly, whatever the draw.
C11_AttemptZero ==
    bDelay # 0 - 1 /\ bRetries = 0 => bDelay = NewBackoff.baseDelay

\* C11 witness: Duration(0) has returned the base delay under a draw that
\* would have shortened it
C11_Witness ==
    /\ bRetries = 0
    /\ bDraw = 0
    /\ bDelay = defaultBaseDelay
    /\ Jittered(defaultBaseDelay, defaultJitter, bDraw) < defaultBaseDelay

\* C12: the delay before jitter never decreases from one attempt to the
\* next, and once it has reached MaxDelay it stays MaxDelay.
C12_Monotonic ==
    bRetries >= 0 =>
        LET d0 == Nominal(NewBackoff, bRetries)
            d1 == Nominal(NewBackoff, bRetries + 1)
        IN  /\ d1 >= d0
            /\ d0 = NewBackoff.MaxDelay => d1 = NewBackoff.MaxDelay
            /\ d0 < NewBackoff.MaxDelay => d1 > d0

\* C12 witness: the attempt at which the growing delay first meets the cap
C12_Witness ==
    /\ bRetries > 0
    /\ bDelay # 0 - 1
    /\ Nominal(NewBackoff, bRetries) < NewBackoff.MaxDelay
    /\ Nominal(NewBackoff, bRetries + 1) = NewBackoff.MaxDelay

\* C13: every relay request carries the first 20 recipients of the list
\* passed, or the whole list when it has at most 20, on the first attempt
\* and on every retry.
C13_Truncation ==
    pc[Sender] = "post" =>
        /\ Len(reqObj.UserIDs) <= MaxRecipients
        /\ reqObj.UserIDs =
             SubSeq(arg, 1, IF Len(arg) > MaxRecipients THEN MaxRecipients ELSE Len(arg))

\* C13 witness: a retry of a call that was passed MaxTo = 25 recipients
C13_Witness ==
    /\ pc[Sender] = "post"
    /\ retries > 0
    /\ Len(arg) = MaxTo
    /\ Len(arg) > MaxRecipients
    /\ Len(reqObj.UserIDs) = MaxRecipients

\* C14: a transport failure is never returned as a success: a failed token
\* fetch gives its caller an error, and an operation whose post call met a
\* network error, an unreadable body or a status other than 200 returns an
\* error.
C14_TransportSurfaced ==
    /\ \A p \in Procs : call[p].out \in Transport => Result(p).err # "nil"
    /\ pc[Sender] = "sdone" /\ posts > 0
         /\ (resp.net \/ ~resp.decodes \/ resp.status # 200)
       => sres.kind \in {"err", "posterr", "apperr"}

\* C15: an operation that decoded an envelope whose errcode is not 0,
\* negative ones included, returns an error.
C15_AppErrorSurfaced ==
    pc[Sender] = "sdone" /\ op \in ApiOps /\ resp.decodes /\ resp.ErrCode # 0
        => sres.kind = "apperr"

\* C16: SendMessageFromRobot returns an error only after all MaxRetry + 1
\* relay calls failed, and the error carries that count; when a call
\* succeeds it returns that response, and that call is the last one made.
C16_RetrySurfacing ==
    op = "SendMessageFromRobot" =>
        /\ pc[Sender] = "sleep" => sres = NoRes
        /\ sres.kind = "err" => posts = MaxRetry + 1 /\ sres.retries = posts
        /\ pc[Sender] \in {"after", "sdone"} /\ ~err /\ posts > 0 =>
             /\ ~PostFails(resp)
             /\ posts = retries + 1
             /\ pc[Sender] = "sdone" => sres.kind = "ok"
        /\ sres.kind = "ok" => ~err

\* C16 witness: the third relay call succeeded after two failures
C16_Witness ==
    /\ op = "SendMessageFromRobot"
    /\ pc[Sender] = "sdone"
    /\ sres.kind = "ok"
    /\ retries = 2
    /\ posts = 3

\* C17: when GetAccessToken returns without error (lines 64 and 93) the
\* token returned is not empty and the expiry lies after that instant.
C17_ValidCredential ==
    [][\A p \in Procs :
          pc[p] \in {"check", "store2"} /\ pc'[p] = "unlock" =>
              call'[p].token # "" /\ now' < expireTime']_vars

\* C18: a failed relay call is followed by a sleep only when another call
\* follows: a finished SendMessageFromRobot slept once less than it posted.
C18_SleepsBetween ==
    op = "SendMessageFromRobot" /\ pc[Sender] = "sdone" /\ posts > 0 =>
        Len(sleeps) = posts - 1

\* C19: while the fetch of one call is in flight that call holds the mutex,
\* and no other call is inside GetAccessToken or returns from it.
C19_RefreshBlocks ==
    [][\A p \in Procs : pc[p] = "get" =>
          /\ mutex = p
          /\ pc'[p] = "get" => mutex' = p
          /\ \A q \in Procs \ {p} :
               /\ ~Holding(q)
               /\ pc'[q] \notin {"unlock", "done", "token"} \/ pc'[q] = pc[q]]_vars

\* C19 witness: time passes while one caller's fetch is in flight and
\* another is blocked in Lock
C19_Witness ==
    \E p, q \in Callers :
        /\ p # q
        /\ pc[p] = "get"
        /\ pc[q] = "lock"
        /\ now > call[p].at

\* the operation made no HTTP call before GetAccessToken gave it a token,
\* and none at all when GetAccessToken failed
TokenFirst ==
    /\ posts > 0 => call[Sender].out \in {"ok", "hit"}
    /\ IsError(call[Sender].out) => posts = 0
    /\ IsError(call[Sender].out) /\ pc[Sender] = "sdone" => sres.kind = "tokenerr"

\* C20, as stated: every operation calls GetAccessToken before its HTTP
\* call and returns the error, without an HTTP call, when it fails.
C20_Original == TokenFirst

\* C20, amended: every operation but GetUserUnionIDByCode does so;
\* GetUserUnionIDByCode makes its HTTP call without calling GetAccessToken.
C20_Amended ==
    /\ UsesToken(op) => TokenFirst
    /\ op = "GetUserUnionIDByCode" => call[Sender] = NoCall

\* C20 witness: an operation returned the error of GetAccessToken and made
\* no HTTP call
C20_Witness ==
    /\ op \in ApiOps
    /\ pc[Sender] = "sdone"
    /\ IsError(call[Sender].out)
    /\ sres.kind = "tokenerr"
    /\ posts = 0

\* C21: a call that has returned does not hold the mutex, whatever path it
\* took, and under fair scheduling every call of GetAccessToken made
\* eventually returns: a caller calls once and a call that has returned
\* stays returned, so from some point on no call is pending.
C21_Returns ==
    /\ [](\A p \in Callers : pc[p] = "done" => mutex # p)
    /\ <>[](\A p \in Callers : pc[p] \in {"idle", "done"})

\* C21 witness: a call returned through an error path and the call that
\* waited for the mutex behind it has returned too
C21_Witness ==
    \E p, q \in Callers :
        /\ p # q
        /\ pc[p] = "done" /\ IsError(call[p].out)
        /\ pc[q] = "done" /\ call[q].out = "ok"
        /\ mutex = Unlocked
        /\ Len(log) = 2 /\ IsError(log[1].out)

\* SendMessageFromRobot is in or past its retry loop (lines 375-397)
InLoop == pc[Sender] \in {"loop", "post", "sleep", "after"}

\* C22: SendMessageFromRobot calls GetAccessToken once, before the loop;
\* every relay call carries the token that call returned and the same body;
\* no step of the loop enters GetAccessToken or changes the cached token or
\* expiry (only another caller's step does), expired token or not.
C22_Frame ==
    [][/\ pc'[Sender] = "lock" => pc[Sender] \in {"idle", "lock"}
       /\ op = "SendMessageFromRobot" /\ InLoop =>
            /\ call[Sender].out \in {"ok", "hit"}
            /\ reqObj.header = call[Sender].token
            /\ reqObj' = reqObj
            /\ call'[Sender] = call[Sender]
            /\ pc'[Sender] \in {"loop", "post", "sleep", "after", "sdone"}
            /\ (accessToken' # accessToken \/ expireTime' # expireTime
                  \/ fetches' # fetches \/ mutex' # mutex)
               => pc'[1] # pc[1] /\ pc'[Sender] = pc[Sender]]_vars

\* C22 witness: a relay call made with the cached, still valid token has
\* failed, and the sleep that follows ends, whatever the draw, at or after
\* the expiry of that token; the retry follows
C22_Witness ==
    /\ op = "SendMessageFromRobot"
    /\ pc[Sender] = "sleep"
    /\ retries < MaxRetry
    /\ accessToken # "" /\ reqObj.header = accessToken
    /\ now < expireTime
    /\ \A k \in Draws : After(Duration(NewBackoff, retries + 1, k)) >= expireTime

====
